---------------------------- MODULE Spec2Model ----------------------------
(***************************************************************************)
(* Environment-detection exporter (src/microservice.py).                   *)
(*                                                                         *)
(* The detector probes the host (cgroup files, environment variables, the  *)
(* cpuid and wmic commands, /proc/cpuinfo) and classifies it; the exporter *)
(* writes the classification into one labelled gauge, binds an HTTP        *)
(* listener on 8080 or else 8082, and blocks on a prompt.                  *)
(*                                                                         *)
(* Text is modelled as a sequence of one-character strings, so that        *)
(* str.lower() and the substring test `in` are computed, not assumed.      *)
(* A Python call's outcome is Return(value) or Raise(exception class).     *)
(* update_metrics and main are modelled line by line: pc names the line    *)
(* that runs next, and SIGINT may be delivered before any line; the        *)
(* KeyboardInterrupt it raises is caught only by main (lines 180-182).     *)
(***************************************************************************)
EXTENDS Integers, Sequences, FiniteSets, TLC

VARIABLES
    host,        \* what the probes read: files, environment, command outcomes
    patch,       \* which routines are replaced by a simulated fault
    call,        \* the latest direct call of a routine: operation and outcome
    outcome,     \* how get_environment_type ended inside update_metrics
    gauge,       \* ENVIRONMENT_TYPE: label -> value, for the labels that are set
    calls,       \* number of direct update_metrics() calls made so far
    caller,      \* who calls update_metrics: "main" or a "direct" call
    pc,          \* the line of update_metrics or main that runs next
    port,        \* main's local variable `port` (0 before line 168)
    pending,     \* the exception in flight while the finally block runs
    attempts,    \* ports passed to start_http_server, in order
    failed,      \* ports whose start_http_server raised
    listening,   \* ports on which a listener is bound
    log,         \* messages main has logged, in order
    updates,     \* number of update_metrics() calls made by main
    sigints,     \* number of KeyboardInterrupts raised so far
    exitStatus   \* {} while the process runs, {status} once it has exited

vars == <<host, patch, call, outcome, gauge, calls, caller, pc, port, pending,
          attempts, failed, listening, log, updates, sigints, exitStatus>>

---------------------------------------------------------------------------
(* Python outcomes and exception classes                                   *)

Return(v) == [kind |-> "return", value |-> v]

Raise(e) == [kind |-> "raise", exc |-> e]

\* The classes deriving from Exception that occur: `except Exception` catches
\* each of them.  KeyboardInterrupt, raised in the main thread when SIGINT is
\* delivered, derives from BaseException only and passes `except Exception`.
ExceptionClasses ==
    {"FileNotFoundError", "PermissionError", "TimeoutExpired",
     "CalledProcessError", "EOFError", "OSError", "RuntimeError"}

\* `except (subprocess.TimeoutExpired, subprocess.CalledProcessError, FileNotFoundError)`
CpuidCaught == {"TimeoutExpired", "CalledProcessError", "FileNotFoundError"}

\* Truth value of a Python result used as a condition (None is falsy).
Truthy(v) == v = "True"

---------------------------------------------------------------------------
(* Text                                                                    *)

LowerMap ==
    [A |-> "a", B |-> "b", C |-> "c", D |-> "d", E |-> "e", F |-> "f",
     G |-> "g", H |-> "h", I |-> "i", J |-> "j", K |-> "k", L |-> "l",
     M |-> "m", N |-> "n", O |-> "o", P |-> "p", Q |-> "q", R |-> "r",
     S |-> "s", T |-> "t", U |-> "u", V |-> "v", W |-> "w", X |-> "x",
     Y |-> "y", Z |-> "z"]

\* str.lower()
Lower(s) ==
    [i \in 1..Len(s) |-> IF s[i] \in DOMAIN LowerMap THEN LowerMap[s[i]] ELSE s[i]]

\* `needle in hay` on strings
Contains(hay, needle) ==
    \E i \in 0..(Len(hay) - Len(needle)) :
        SubSeq(hay, i + 1, i + Len(needle)) = needle

\* any(x in text for x in needles), and the equivalent for-loop with return True
ContainsAny(text, needles) == \E n \in needles : Contains(text, n)

---------------------------------------------------------------------------
(* Signature lists                                                         *)

\* line 41
Cgroup1Signatures == {<<"d", "o", "c", "k", "e", "r">>, <<"c", "o", "n", "t", "a", "i", "n", "e", "r", "d">>, <<"k", "u", "b", "e", "p", "o", "d", "s">>}

\* line 48
container_indicators ==
    {<<"d", "o", "c", "k", "e", "r">>, <<"l", "x", "c">>, <<"c", "o", "n", "t", "a", "i", "n", "e", "r", "d">>, <<"k", "u", "b", "e", "p", "o", "d", "s">>, <<"s", "y", "s", "t", "e", "m", ".", "s", "l", "i", "c", "e", "/", "d", "o", "c", "k", "e", "r">>}

\* line 53
container_env_vars == {"DOCKER_CONTAINER", "container", "KUBERNETES_SERVICE_HOST"}

\* lines 71-74
vm_signatures ==
    {<<"v", "m", "w", "a", "r", "e">>, <<"v", "i", "r", "t", "u", "a", "l", "b", "o", "x">>, <<"k", "v", "m">>, <<"q", "e", "m", "u">>, <<"x", "e", "n">>, <<"h", "y", "p", "e", "r", "v">>,
     <<"m", "i", "c", "r", "o", "s", "o", "f", "t", " ", "h", "v">>, <<"p", "a", "r", "a", "l", "l", "e", "l", "s">>, <<"b", "o", "c", "h", "s">>}

\* lines 89-92
vm_indicators ==
    {<<"h", "y", "p", "e", "r", "v", "i", "s", "o", "r">>, <<"v", "m", "w", "a", "r", "e">>, <<"v", "i", "r", "t", "u", "a", "l", "b", "o", "x">>, <<"k", "v", "m">>, <<"q", "e", "m", "u">>, <<"x", "e", "n">>,
     <<"b", "o", "c", "h", "s">>, <<"p", "a", "r", "a", "l", "l", "e", "l", "s">>}

\* lines 113-116
windows_vm_indicators ==
    {<<"v", "m", "w", "a", "r", "e">>, <<"v", "i", "r", "t", "u", "a", "l", "b", "o", "x">>, <<"m", "i", "c", "r", "o", "s", "o", "f", "t", " ", "c", "o", "r", "p", "o", "r", "a", "t", "i", "o", "n">>, <<"x", "e", "n">>, <<"q", "e", "m", "u">>,
     <<"p", "a", "r", "a", "l", "l", "e", "l", "s">>, <<"i", "n", "n", "o", "t", "e", "k">>, <<"b", "o", "c", "h", "s">>}

---------------------------------------------------------------------------
(* The host: files and commands                                            *)

Missing == [kind |-> "missing"]

Unreadable == [kind |-> "unreadable"]

File(text) == [kind |-> "file", content |-> text]

\* os.path.exists(path)
PathExists(f) == f.kind # "missing"

\* open(path, 'r') followed by f.read()
ReadFile(f) ==
    IF f.kind = "file" THEN Return(f.content)
    ELSE IF f.kind = "missing" THEN Raise("FileNotFoundError")
    ELSE Raise("PermissionError")

\* subprocess.run(...) that ran to completion
Completed(rc, out) == Return([returncode |-> rc, stdout |-> out])

---------------------------------------------------------------------------
(* EnvironmentDetector                                                     *)

\* Lines 38-42 and 45-50: one cgroup file step.  "match", "nomatch", or
\* "raise" when the read faults (which leaves the whole try block).
CgroupStep(f, signatures) ==
    IF ~PathExists(f) THEN "nomatch"
    ELSE LET r == ReadFile(f) IN
         IF r.kind = "raise" THEN "raise"
         ELSE IF ContainsAny(Lower(r.value), signatures) THEN "match"
         ELSE "nomatch"

is_container(h) ==
    LET s1 == CgroupStep(h.cgroup1, Cgroup1Signatures)
        s2 == CgroupStep(h.cgroupSelf, container_indicators)
    IN  IF s1 = "match" THEN Return("True")
        ELSE IF s1 = "raise" THEN Return("False")      \* except, then line 60
        ELSE IF s2 = "match" THEN Return("True")
        ELSE IF s2 = "raise" THEN Return("False")      \* except, then line 60
        ELSE IF \E v \in container_env_vars : v \in h.environ THEN Return("True")
        ELSE Return("False")

\* Lines 85-102: the /proc/cpuinfo sub-probe and the final return.
CpuinfoProbe(h) ==
    LET r == ReadFile(h.cpuinfo) IN
    IF r.kind = "return" /\ ContainsAny(Lower(r.value), vm_indicators)
    THEN Return("True")
    ELSE Return("False")

is_vm(h) ==
    LET r == h.cpuid IN
    IF r.kind = "raise"
    THEN IF r.exc \in CpuidCaught THEN CpuinfoProbe(h) ELSE Raise(r.exc)
    ELSE IF r.value.returncode = 0
            /\ ContainsAny(Lower(r.value.stdout), vm_signatures)
         THEN Return("True")
         ELSE CpuinfoProbe(h)

detect_vm_windows(h) ==
    LET r == h.wmic IN
    IF r.kind = "raise" /\ r.exc \notin ExceptionClasses THEN Raise(r.exc)
    ELSE IF r.kind = "return" /\ r.value.returncode = 0
            /\ ContainsAny(Lower(r.value.stdout), windows_vm_indicators)
    THEN Return("True")
    ELSE Return("None")

\* The probe as get_environment_type calls it: the routine itself, or the
\* simulated fault it has been replaced by.
Probe(p, real) == IF p = "real" THEN real ELSE Raise("RuntimeError")

\* Line 140: what get_environment_type does with an exception of a probe.
Handle(o) ==
    IF o.exc \in ExceptionClasses THEN Return(<<"unknown", -1>>) ELSE o

\* Classify with the vm probe consulted before the container probe.
ClassifyVmFirst(c, v, w) ==
    IF v.kind = "raise" THEN Handle(v)
    ELSE IF Truthy(v.value) THEN Return(<<"vm", 1>>)
    ELSE IF c.kind = "raise" THEN Handle(c)
    ELSE IF Truthy(c.value) THEN Return(<<"container", 2>>)
    ELSE IF w.kind = "raise" THEN Handle(w)
    ELSE IF Truthy(w.value) THEN Return(<<"vm", 1>>)
    ELSE Return(<<"hardware", 0>>)

\* Classify without the catch-all of lines 140-142: a probe's fault leaves
\* get_environment_type.
ClassifyPropagating(c, v, w) ==
    IF c.kind = "raise" THEN c
    ELSE IF Truthy(c.value) THEN Return(<<"container", 2>>)
    ELSE IF v.kind = "raise" THEN v
    ELSE IF Truthy(v.value) THEN Return(<<"vm", 1>>)
    ELSE IF w.kind = "raise" THEN w
    ELSE IF Truthy(w.value) THEN Return(<<"vm", 1>>)
    ELSE Return(<<"hardware", 0>>)

\* Lines 131-142, on the outcomes of the three probes.  A probe further down
\* the chain is called only when the ones before it returned a falsy value.
Classify(c, v, w) ==
    IF c.kind = "raise" THEN Handle(c)
    ELSE IF Truthy(c.value) THEN Return(<<"container", 2>>)
    ELSE IF v.kind = "raise" THEN Handle(v)
    ELSE IF Truthy(v.value) THEN Return(<<"vm", 1>>)
    ELSE IF w.kind = "raise" THEN Handle(w)
    ELSE IF Truthy(w.value) THEN Return(<<"vm", 1>>)
    ELSE Return(<<"hardware", 0>>)

ProbeOutcomes(h, p) ==
    [c |-> Probe(p.is_container, is_container(h)),
     v |-> Probe(p.is_vm, is_vm(h)),
     w |-> Probe(p.detect_vm_windows, detect_vm_windows(h))]

get_environment_type(h, p) ==
    LET o == ProbeOutcomes(h, p) IN Classify(o.c, o.v, o.w)

---------------------------------------------------------------------------
(* The gauge                                                               *)

EmptyGauge == [l \in {} |-> 0]

\* ENVIRONMENT_TYPE.clear(): every label child is removed
Clear(g) == EmptyGauge

\* ENVIRONMENT_TYPE.labels(environment=l): the child is created with value 0
\* when absent, and an existing child is kept as it is
Labels(g, l) ==
    [k \in DOMAIN g \cup {l} |-> IF k \in DOMAIN g THEN g[k] ELSE 0]

\* .set(x) on the child of label l; the other children are kept
Set(g, l, x) == [k \in DOMAIN g |-> IF k = l THEN x ELSE g[k]]

\* detector.get_environment_type() as update_metrics calls it: the routine
\* itself, or the simulated fault it has been replaced by.
ClassifyCall(h, p) ==
    IF p.get_environment_type = "real" THEN get_environment_type(h, p)
    ELSE Raise("RuntimeError")

---------------------------------------------------------------------------
(* Inputs                                                                  *)

Cgroup1Files ==
    {Missing, Unreadable, File(<<"/", "D", "o", "c", "k", "e", "r", "/", "a", "1">>), File(<<"/", "l", "x", "c", "/", "a", "1">>)}

CgroupSelfFiles ==
    {Missing, Unreadable, File(<<"0", ":", ":", "/">>), File(<<"/", "l", "x", "c", "/", "a", "1">>)}

Environs == {{"PATH"}, {"PATH", "container"}, {"KUBERNETES_SERVICE_HOST"}}

CpuidRuns ==
    {Raise("FileNotFoundError"), Raise("TimeoutExpired"), Raise("PermissionError"),
     Raise("KeyboardInterrupt"), Completed(1, <<"K", "V", "M">>), Completed(0, <<"K", "V", "M">>), Completed(0, <<"G", "e", "n", "u", "i", "n", "e", "I", "n", "t", "e", "l">>)}

CpuinfoFiles ==
    {Missing, Unreadable, File(<<"f", "l", "a", "g", "s", ":", " ", "h", "y", "p", "e", "r", "v", "i", "s", "o", "r">>), File(<<"G", "e", "n", "u", "i", "n", "e", "I", "n", "t", "e", "l">>)}

WmicRuns ==
    {Raise("TimeoutExpired"), Raise("KeyboardInterrupt"), Completed(127, <<>>),
     Completed(0, <<"M", "a", "n", "u", "f", "a", "c", "t", "u", "r", "e", "r", "=", "i", "n", "n", "o", "t", "e", "k", " ", "G", "m", "b", "H">>)}

Hosts ==
    [cgroup1 : Cgroup1Files, cgroupSelf : CgroupSelfFiles, environ : Environs,
     cpuid : CpuidRuns, cpuinfo : CpuinfoFiles, wmic : WmicRuns]

NoPatch ==
    [is_container |-> "real", is_vm |-> "real", detect_vm_windows |-> "real",
     get_environment_type |-> "real"]

ProbePatches ==
    [is_container : {"real", "raise"}, is_vm : {"real", "raise"},
     detect_vm_windows : {"real", "raise"}, get_environment_type : {"real"}]

NoCall == [op |-> "none"]

NoOutcome == [kind |-> "none"]

Running == [kind |-> "running"]

---------------------------------------------------------------------------
(* Detector specification: one routine called directly on a host.  The     *)
(* routines keep no state, so one call per host and routine covers them.   *)

IdleMain ==
    /\ outcome = NoOutcome
    /\ gauge = EmptyGauge
    /\ calls = 0
    /\ caller = "direct"
    /\ pc = "idle"
    /\ port = 0
    /\ pending = "none"
    /\ attempts = <<>>
    /\ failed = {}
    /\ listening = {}
    /\ log = <<>>
    /\ updates = 0
    /\ sigints = 0
    /\ exitStatus = {}

InitDetector ==
    /\ host \in Hosts
    /\ patch = NoPatch
    /\ call = NoCall
    /\ IdleMain

mainVars ==
    <<caller, pc, port, pending, attempts, failed, listening, log, updates,
      sigints, exitStatus>>

CallIsContainer ==
    /\ call = NoCall
    /\ call' = [op |-> "is_container", ret |-> is_container(host)]
    /\ UNCHANGED <<host, patch, outcome, gauge, calls, mainVars>>

CallIsVm ==
    /\ call = NoCall
    /\ call' = [op |-> "is_vm", ret |-> is_vm(host)]
    /\ UNCHANGED <<host, patch, outcome, gauge, calls, mainVars>>

CallDetectVmWindows ==
    /\ call = NoCall
    /\ call' = [op |-> "detect_vm_windows", ret |-> detect_vm_windows(host)]
    /\ UNCHANGED <<host, patch, outcome, gauge, calls, mainVars>>

CallGetEnvironmentType ==
    \E p \in ProbePatches :
        /\ call = NoCall
        /\ patch' = p
        /\ call' = [op |-> "get_environment_type",
                    probes |-> ProbeOutcomes(host, p),
                    ret |-> get_environment_type(host, p)]
        /\ UNCHANGED <<host, outcome, gauge, calls, mainVars>>

NextDetector ==
    \/ CallIsContainer
    \/ CallIsVm
    \/ CallDetectVmWindows
    \/ CallGetEnvironmentType

SpecDetector == InitDetector /\ [][NextDetector]_vars

---------------------------------------------------------------------------
(* update_metrics, line by line (lines 144-161)                            *)

serverVars == <<port, pending, attempts, failed, listening, log, exitStatus>>

\* Lines 155 and 161 are two calls each, labels() and then set(); the
\* position between the two is "L155set" and "L161set".
UpdateLines ==
    {"L149", "L152", "L155", "L155set", "L157", "L160", "L161", "L161set"}

\* The handler of main an exception reaches: lines 180-182 for a
\* KeyboardInterrupt, lines 183-185 for an exception derived from Exception.
HandlerOf(exc) == IF exc = "KeyboardInterrupt" THEN "L181" ELSE "L184"

\* update_metrics returns None to its caller: main goes on at line 168.
ReturnFromUpdate ==
    IF caller = "main"
    THEN pc' = "L168" /\ UNCHANGED call
    ELSE pc' = "idle" /\ call' = [call EXCEPT !.ret = Return("None")]

\* An exception leaves update_metrics: in main it reaches a handler of the
\* try statement of line 165.
LeaveUpdate(exc) ==
    IF caller = "main"
    THEN pc' = HandlerOf(exc) /\ UNCHANGED call
    ELSE pc' = "idle" /\ call' = [call EXCEPT !.ret = Raise(exc)]

\* UpdateClassify without the handler of lines 159-161: a fault of the
\* classification leaves update_metrics.
UpdateClassifyPropagating ==
    /\ pc = "L149"
    /\ LET r == ClassifyCall(host, patch) IN
          /\ outcome' = r
          /\ IF r.kind = "return"
             THEN pc' = "L152" /\ UNCHANGED <<call, sigints>>
             ELSE /\ LeaveUpdate(r.exc)
                  /\ sigints' = IF r.exc \in ExceptionClasses
                                THEN sigints ELSE sigints + 1
    /\ UNCHANGED <<host, patch, gauge, calls, caller, updates, serverVars>>

\* Line 149: a result goes on to line 152, an exception derived from
\* Exception to the handler (line 160); a KeyboardInterrupt raised while a
\* probe waits for its command leaves update_metrics.
UpdateClassify ==
    /\ pc = "L149"
    /\ LET r == ClassifyCall(host, patch) IN
          /\ outcome' = r
          /\ IF r.kind = "return"
             THEN pc' = "L152" /\ UNCHANGED <<call, sigints>>
             ELSE IF r.exc \in ExceptionClasses
             THEN pc' = "L160" /\ UNCHANGED <<call, sigints>>
             ELSE LeaveUpdate(r.exc) /\ sigints' = sigints + 1
    /\ UNCHANGED <<host, patch, gauge, calls, caller, updates, serverVars>>

\* Line 152
UpdateClear ==
    /\ pc = "L152"
    /\ gauge' = Clear(gauge)
    /\ pc' = "L155"
    /\ UNCHANGED <<host, patch, call, outcome, calls, caller, updates,
                   sigints, serverVars>>

\* Line 155, first call: labels(environment=env_name)
UpdateLabels ==
    /\ pc = "L155"
    /\ gauge' = Labels(gauge, outcome.value[1])
    /\ pc' = "L155set"
    /\ UNCHANGED <<host, patch, call, outcome, calls, caller, updates,
                   sigints, serverVars>>

\* Line 155, second call: .set(env_value)
UpdateSet ==
    /\ pc = "L155set"
    /\ gauge' = Set(gauge, outcome.value[1], outcome.value[2])
    /\ pc' = "L157"
    /\ UNCHANGED <<host, patch, call, outcome, calls, caller, updates,
                   sigints, serverVars>>

\* Line 157, after which update_metrics returns
UpdateLogInfo ==
    /\ pc = "L157"
    /\ ReturnFromUpdate
    /\ UNCHANGED <<host, patch, outcome, gauge, calls, caller, updates,
                   sigints, serverVars>>

\* Line 160
UpdateLogError ==
    /\ pc = "L160"
    /\ pc' = "L161"
    /\ UNCHANGED <<host, patch, call, outcome, gauge, calls, caller, updates,
                   sigints, serverVars>>

\* Line 161, first call: labels(environment="error"); the gauge is not
\* cleared
UpdateLabelsError ==
    /\ pc = "L161"
    /\ gauge' = Labels(gauge, "error")
    /\ pc' = "L161set"
    /\ UNCHANGED <<host, patch, call, outcome, calls, caller, updates,
                   sigints, serverVars>>

\* Line 161, second call: .set(-1), after which update_metrics returns
UpdateSetError ==
    /\ pc = "L161set"
    /\ gauge' = Set(gauge, "error", -1)
    /\ ReturnFromUpdate
    /\ UNCHANGED <<host, patch, outcome, calls, caller, updates, sigints,
                   serverVars>>

---------------------------------------------------------------------------
(* SIGINT                                                                  *)

\* main before its try statement (lines 163-165)
EntryLines == {"L163"}

InnerTryLines == {"L170", "L172", "L173", "L174"}

FinallyLines == {"L176", "L177"}

OuterTryLines == {"L166", "L168", "L178"}

HandlerLines == {"L181", "L182", "L184", "L185"}

\* SIGINT is delivered as the call or statement at pc is about to run and
\* raises KeyboardInterrupt there.  It leaves update_metrics, whose handler
\* catches Exception only; inside the try statement of line 169 or its
\* handler it first runs the finally block; raised in the finally block it
\* replaces the exception in flight; raised before main's try statement
\* (lines 163-165) or inside a handler of main (lines 181-185) nothing
\* catches it and the interpreter ends the process on SIGINT, status 130.
Sigint ==
    /\ pc \in UpdateLines \cup EntryLines \cup InnerTryLines
                \cup FinallyLines \cup OuterTryLines \cup HandlerLines
    /\ sigints' = sigints + 1
    /\ IF pc \in UpdateLines
       THEN LeaveUpdate("KeyboardInterrupt") /\ UNCHANGED <<pending, exitStatus>>
       ELSE IF pc \in InnerTryLines
       THEN /\ pc' = "L176"
            /\ pending' = "KeyboardInterrupt"
            /\ UNCHANGED <<call, exitStatus>>
       ELSE IF pc \in EntryLines \cup HandlerLines
       THEN /\ pc' = "exited"
            /\ exitStatus' = {130}
            /\ UNCHANGED <<call, pending>>
       ELSE /\ pc' = "L181"
            /\ pending' = "none"
            /\ UNCHANGED <<call, exitStatus>>
    /\ UNCHANGED <<host, patch, outcome, gauge, calls, caller, port, attempts,
                   failed, listening, log, updates>>

---------------------------------------------------------------------------
(* Exporter specification: update_metrics called repeatedly                *)

MaxCalls == 3

\* Hosts for the exporter and for main: every outcome of the classification
\* (container, vm, hardware, unknown) occurs among them.
ExporterHosts ==
    {h \in Hosts : /\ h.cgroupSelf = Missing
                   /\ h.environ = {"PATH"}
                   /\ h.wmic = Completed(127, <<>>)}

ExporterPatches ==
    [is_container : {"real", "raise"}, is_vm : {"real"},
     detect_vm_windows : {"real"}, get_environment_type : {"real", "raise"}]

InitExporter ==
    /\ host \in ExporterHosts
    /\ patch = NoPatch
    /\ call = NoCall
    /\ IdleMain

\* A direct call of update_metrics() begins (lines 144-148).
CallUpdateMetrics ==
    \E p \in ExporterPatches :
        /\ pc = "idle"
        /\ calls < MaxCalls
        /\ patch' = p
        /\ calls' = calls + 1
        /\ call' = [op |-> "update_metrics", ret |-> Running]
        /\ outcome' = NoOutcome
        /\ pc' = "L149"
        /\ UNCHANGED <<host, gauge, caller, updates, sigints, serverVars>>

NextExporter ==
    \/ CallUpdateMetrics
    \/ UpdateClassify
    \/ UpdateClear
    \/ UpdateLabels
    \/ UpdateSet
    \/ UpdateLogInfo
    \/ UpdateLogError
    \/ UpdateLabelsError
    \/ UpdateSetError
    \/ Sigint

SpecExporter == InitExporter /\ [][NextExporter]_vars

---------------------------------------------------------------------------
(* main(), line by line (lines 163-185)                                    *)

PreferredPort == 8080

FallbackPort == 8082

MainPatches ==
    [is_container : {"real"}, is_vm : {"real"}, detect_vm_windows : {"real"},
     get_environment_type : {"real", "raise"}]

\* What input() can do: return a line, or raise.
PromptEvents == {"line", "EOFError", "KeyboardInterrupt"}

\* What start_http_server can do: bind and return, raise because the bind
\* failed, or be cut short by SIGINT before or after the socket is bound.
BindOutcomes == {"bound", "OSError", "KeyboardInterrupt", "boundKeyboardInterrupt"}

Started(p) ==
    [level |-> "info", msg |-> "Prometheus metrics server started on port",
     port |-> p]

Available(p) == [level |-> "info", msg |-> "Metrics available at", port |-> p]

Switched == [level |-> "warning", msg |-> "Switched server to port 8082"]

Fatal == [level |-> "error", msg |-> "Fatal error"]

ShuttingDown == [level |-> "info", msg |-> "Shutting down..."]

InitMain ==
    /\ host \in ExporterHosts
    /\ patch \in MainPatches
    /\ call = NoCall
    /\ outcome = NoOutcome
    /\ gauge = EmptyGauge
    /\ calls = 0
    /\ caller = "main"
    /\ pc = "L163"
    /\ port = 0
    /\ pending = "none"
    /\ attempts = <<>>
    /\ failed = {}
    /\ listening = {}
    /\ log = <<>>
    /\ updates = 0
    /\ sigints = 0
    /\ exitStatus = {}

calleeVars == <<host, patch, call, outcome, gauge, calls, caller>>

\* Lines 163-165: main is entered and reaches its try statement
MainEnter ==
    /\ pc = "L163"
    /\ pc' = "L166"
    /\ UNCHANGED <<calleeVars, updates, sigints, serverVars>>

\* Line 166: update_metrics is called
MainCallUpdate ==
    /\ pc = "L166"
    /\ updates' = updates + 1
    /\ pc' = "L149"
    /\ UNCHANGED <<calleeVars, sigints, serverVars>>

\* Line 168
MainSetPort ==
    /\ pc = "L168"
    /\ port' = PreferredPort
    /\ pc' = "L170"
    /\ UNCHANGED <<calleeVars, updates, sigints, pending, attempts, failed,
                   listening, log, exitStatus>>

\* Line 170: a bind failure enters the handler (line 172); otherwise, and
\* when a KeyboardInterrupt cuts the call short, the finally block runs.
MainBindPreferred ==
    /\ pc = "L170"
    /\ attempts' = Append(attempts, port)
    /\ \E o \in BindOutcomes :
          IF o = "bound"
          THEN /\ listening' = listening \cup {port}
               /\ pc' = "L176"
               /\ UNCHANGED <<failed, pending, sigints>>
          ELSE IF o = "OSError"
          THEN /\ failed' = failed \cup {port}
               /\ pc' = "L172"
               /\ UNCHANGED <<listening, pending, sigints>>
          ELSE /\ listening' = IF o = "boundKeyboardInterrupt"
                               THEN listening \cup {port}
                               ELSE listening
               /\ pending' = "KeyboardInterrupt"
               /\ sigints' = sigints + 1
               /\ pc' = "L176"
               /\ UNCHANGED failed
    /\ UNCHANGED <<calleeVars, updates, port, log, exitStatus>>

\* Line 172
MainSetFallbackPort ==
    /\ pc = "L172"
    /\ port' = FallbackPort
    /\ pc' = "L173"
    /\ UNCHANGED <<calleeVars, updates, sigints, pending, attempts, failed,
                   listening, log, exitStatus>>

\* Line 173
MainLogSwitched ==
    /\ pc = "L173"
    /\ log' = Append(log, Switched)
    /\ pc' = "L174"
    /\ UNCHANGED <<calleeVars, updates, sigints, port, pending, attempts,
                   failed, listening, exitStatus>>

\* MainBindFallback that tries the fallback port again after it failed.
MainBindFallbackRetrying ==
    /\ pc = "L174"
    /\ attempts' = Append(attempts, port)
    /\ \E o \in BindOutcomes :
          IF o = "bound"
          THEN /\ listening' = listening \cup {port}
               /\ pc' = "L176"
               /\ UNCHANGED <<failed, pending, sigints>>
          ELSE IF o = "OSError"
          THEN /\ failed' = failed \cup {port}
               /\ pc' = "L174"
               /\ UNCHANGED <<listening, pending, sigints>>
          ELSE /\ listening' = IF o = "boundKeyboardInterrupt"
                               THEN listening \cup {port}
                               ELSE listening
               /\ pending' = "KeyboardInterrupt"
               /\ sigints' = sigints + 1
               /\ pc' = "L176"
               /\ UNCHANGED failed
    /\ UNCHANGED <<calleeVars, updates, port, log, exitStatus>>

\* Line 174, inside the handler: whatever the call raises is in flight while
\* the finally block runs.
MainBindFallback ==
    /\ pc = "L174"
    /\ attempts' = Append(attempts, port)
    /\ \E o \in BindOutcomes :
          IF o = "bound"
          THEN /\ listening' = listening \cup {port}
               /\ pc' = "L176"
               /\ UNCHANGED <<failed, pending, sigints>>
          ELSE IF o = "OSError"
          THEN /\ failed' = failed \cup {port}
               /\ pending' = "OSError"
               /\ pc' = "L176"
               /\ UNCHANGED <<listening, sigints>>
          ELSE /\ listening' = IF o = "boundKeyboardInterrupt"
                               THEN listening \cup {port}
                               ELSE listening
               /\ pending' = "KeyboardInterrupt"
               /\ sigints' = sigints + 1
               /\ pc' = "L176"
               /\ UNCHANGED failed
    /\ UNCHANGED <<calleeVars, updates, port, log, exitStatus>>

\* Line 176, in the finally block
MainLogStarted ==
    /\ pc = "L176"
    /\ log' = Append(log, Started(port))
    /\ pc' = "L177"
    /\ UNCHANGED <<calleeVars, updates, sigints, port, pending, attempts,
                   failed, listening, exitStatus>>

\* Line 177, the end of the finally block: the exception in flight, if any,
\* goes on to its handler; otherwise line 178 is next.
MainLogAvailable ==
    /\ pc = "L177"
    /\ log' = Append(log, Available(port))
    /\ pc' = IF pending = "none" THEN "L178" ELSE HandlerOf(pending)
    /\ pending' = "none"
    /\ UNCHANGED <<calleeVars, updates, sigints, port, attempts, failed,
                   listening, exitStatus>>

\* MainPrompt that runs update_metrics again when the prompt returns a line.
MainPromptRefreshing ==
    /\ pc = "L178"
    /\ \E ev \in PromptEvents :
          IF ev = "line"
          THEN /\ pc' = "L149"
               /\ updates' = updates + 1
               /\ UNCHANGED <<exitStatus, sigints>>
          ELSE IF ev = "KeyboardInterrupt"
          THEN /\ pc' = "L181"
               /\ sigints' = sigints + 1
               /\ UNCHANGED <<exitStatus, updates>>
          ELSE /\ pc' = "L184"
               /\ UNCHANGED <<exitStatus, sigints, updates>>
    /\ UNCHANGED <<calleeVars, port, pending, attempts, failed, listening,
                   log>>

\* Line 178: when input() returns, main returns and the process ends with
\* status 0; what it raises goes to the handlers.
MainPrompt ==
    /\ pc = "L178"
    /\ \E ev \in PromptEvents :
          IF ev = "line"
          THEN /\ pc' = "exited"
               /\ exitStatus' = {0}
               /\ UNCHANGED <<sigints, updates>>
          ELSE IF ev = "KeyboardInterrupt"
          THEN /\ pc' = "L181"
               /\ sigints' = sigints + 1
               /\ UNCHANGED <<exitStatus, updates>>
          ELSE /\ pc' = "L184"
               /\ UNCHANGED <<exitStatus, sigints, updates>>
    /\ UNCHANGED <<calleeVars, port, pending, attempts, failed, listening,
                   log>>

\* Line 181
MainLogShuttingDown ==
    /\ pc = "L181"
    /\ log' = Append(log, ShuttingDown)
    /\ pc' = "L182"
    /\ UNCHANGED <<calleeVars, updates, sigints, port, pending, attempts,
                   failed, listening, exitStatus>>

\* Line 182
MainExitClean ==
    /\ pc = "L182"
    /\ pc' = "exited"
    /\ exitStatus' = {0}
    /\ UNCHANGED <<calleeVars, updates, sigints, port, pending, attempts,
                   failed, listening, log>>

\* Line 184
MainLogFatal ==
    /\ pc = "L184"
    /\ log' = Append(log, Fatal)
    /\ pc' = "L185"
    /\ UNCHANGED <<calleeVars, updates, sigints, port, pending, attempts,
                   failed, listening, exitStatus>>

\* Line 185
MainExitFatal ==
    /\ pc = "L185"
    /\ pc' = "exited"
    /\ exitStatus' = {1}
    /\ UNCHANGED <<calleeVars, updates, sigints, port, pending, attempts,
                   failed, listening, log>>

NextMain ==
    \/ MainEnter
    \/ MainCallUpdate
    \/ UpdateClassify
    \/ UpdateClear
    \/ UpdateLabels
    \/ UpdateSet
    \/ UpdateLogInfo
    \/ UpdateLogError
    \/ UpdateLabelsError
    \/ UpdateSetError
    \/ MainSetPort
    \/ MainBindPreferred
    \/ MainSetFallbackPort
    \/ MainLogSwitched
    \/ MainBindFallback
    \/ MainLogStarted
    \/ MainLogAvailable
    \/ MainPrompt
    \/ MainLogShuttingDown
    \/ MainExitClean
    \/ MainLogFatal
    \/ MainExitFatal
    \/ Sigint

SpecMain == InitMain /\ [][NextMain]_vars

---------------------------------------------------------------------------
(* Properties of the detector                                              *)

Classifications ==
    {<<"hardware", 0>>, <<"vm", 1>>, <<"container", 2>>, <<"unknown", -1>>}

IsEnvCall == call.op = "get_environment_type"

AllProbesReturn ==
    /\ call.probes.c.kind = "return"
    /\ call.probes.v.kind = "return"
    /\ call.probes.w.kind = "return"

\* C1: when the three probes each return a match or no match without raising,
\* get_environment_type returns ("container", 2) if is_container matched,
\* otherwise ("vm", 1) if is_vm matched, otherwise ("vm", 1) if
\* detect_vm_windows matched, otherwise ("hardware", 0); container wins over
\* vm, and every result is one of the four label/code pairs.
C1_PriorityOrder ==
    IsEnvCall =>
        /\ (call.ret.kind = "return" => call.ret.value \in Classifications)
        /\ (AllProbesReturn =>
              LET c == call.probes.c.value = "True"
                  v == call.probes.v.value = "True"
                  w == call.probes.w.value = "True"
              IN  /\ call.ret.kind = "return"
                  /\ (c => call.ret.value = <<"container", 2>>)
                  /\ ((~c /\ v) => call.ret.value = <<"vm", 1>>)
                  /\ ((~c /\ ~v /\ w) => call.ret.value = <<"vm", 1>>)
                  /\ ((~c /\ ~v /\ ~w) => call.ret.value = <<"hardware", 0>>))

\* C1 witness: the container probe and the vm probe both matched and the
\* result is ("container", 2).
C1_Witness ==
    /\ IsEnvCall
    /\ AllProbesReturn
    /\ call.probes.c.value = "True"
    /\ call.probes.v.value = "True"
    /\ call.ret = Return(<<"container", 2>>)

\* The exception, if any, raised by a probe get_environment_type actually
\* calls: is_vm is called only after a falsy is_container, detect_vm_windows
\* only after a falsy is_vm as well.
CalledProbeException ==
    LET c == call.probes.c
        v == call.probes.v
        w == call.probes.w
    IN  IF c.kind = "raise" THEN {c.exc}
        ELSE IF c.value = "True" THEN {}
        ELSE IF v.kind = "raise" THEN {v.exc}
        ELSE IF v.value = "True" THEN {}
        ELSE IF w.kind = "raise" THEN {w.exc}
        ELSE {}

\* A probe get_environment_type calls was cut short by SIGINT.
ProbeInterrupted == "KeyboardInterrupt" \in CalledProbeException

\* C2: get_environment_type never raises: for every fault raised by a probe
\* it calls, it returns ("unknown", -1) instead of propagating the fault.
\* The faults are the exceptions derived from Exception; the
\* KeyboardInterrupt of a SIGINT that cuts a probe short is the interrupt
\* main handles at lines 180-182, and nothing else leaves the routine.
C2_NeverRaises ==
    IsEnvCall =>
        /\ (~ProbeInterrupted =>
              /\ call.ret.kind = "return"
              /\ (CalledProbeException # {}
                    => call.ret = Return(<<"unknown", -1>>)))
        /\ (ProbeInterrupted => call.ret = Raise("KeyboardInterrupt"))

\* C2 witness: no routine is simulated, the real is_vm raised (cpuid could
\* not be launched), and the result is ("unknown", -1).
C2_Witness ==
    /\ IsEnvCall
    /\ patch = NoPatch
    /\ call.probes.c = Return("False")
    /\ call.probes.v.kind = "raise"
    /\ call.ret = Return(<<"unknown", -1>>)

\* A cgroup file step of is_container as the claim states it: the file exists,
\* is read, and its lower-cased content contains one of the signatures.
FileStepMatches(f, signatures) ==
    /\ f.kind = "file"
    /\ ContainsAny(Lower(f.content), signatures)

\* C3 (as claimed): is_container returns true if and only if /proc/1/cgroup
\* matches, or /proc/self/cgroup matches, or one of the three variables is
\* set; a file that is missing or cannot be read is no match for its own step
\* only.
C3_ContainerIffAnyStep ==
    call.op = "is_container" =>
        /\ call.ret.kind = "return"
        /\ (call.ret.value = "True" <=>
               \/ FileStepMatches(host.cgroup1, Cgroup1Signatures)
               \/ FileStepMatches(host.cgroupSelf, container_indicators)
               \/ host.environ \cap container_env_vars # {})

\* A sub-probe of is_vm as the claim states it.
CpuidMatches ==
    /\ host.cpuid.kind = "return"
    /\ host.cpuid.value.returncode = 0
    /\ ContainsAny(Lower(host.cpuid.value.stdout), vm_signatures)

CpuinfoMatches ==
    /\ host.cpuinfo.kind = "file"
    /\ ContainsAny(Lower(host.cpuinfo.content), vm_indicators)

\* C4 (as claimed): is_vm does not raise, whatever way the cpuid invocation
\* fails (not found, timeout, non-zero exit, permission denial), and returns
\* true if and only if the cpuid sub-probe or the /proc/cpuinfo sub-probe
\* matches.  A call cut short by SIGINT is not a failure of the invocation.
C4_VmIffEitherSubProbe ==
    (call.op = "is_vm" /\ host.cpuid # Raise("KeyboardInterrupt")) =>
        /\ call.ret.kind = "return"
        /\ (call.ret.value = "True" <=> (CpuidMatches \/ CpuinfoMatches))

---------------------------------------------------------------------------
(* Properties of the exporter and of main                                  *)

\* The label and value a detection outcome stands for on the gauge: the
\* classification's own pair, or "error" with -1 for a fault.
OutcomeLabel(o) == IF o.kind = "return" THEN o.value[1] ELSE "error"

OutcomeValue(o) == IF o.kind = "return" THEN o.value[2] ELSE -1

\* A direct call of update_metrics has returned.
UpdateReturned ==
    /\ call.op = "update_metrics"
    /\ pc = "idle"
    /\ call.ret = Return("None")

\* C5 (as claimed): after every update_metrics call, whatever its detection
\* outcome (a classification or a fault) and whatever calls came before, the
\* gauge has exactly one label set: the label of the latest outcome, with its
\* numeric code; no label of an earlier call remains, so at most one label
\* is set in every reachable state.
C5_ExactlyOneLabel ==
    /\ Cardinality(DOMAIN gauge) <= 1
    /\ (UpdateReturned =>
          /\ DOMAIN gauge = {OutcomeLabel(outcome)}
          /\ gauge[OutcomeLabel(outcome)] = OutcomeValue(outcome))

\* The classification routine raised a fault inside update_metrics.
ClassificationFault ==
    /\ outcome.kind = "raise"
    /\ outcome.exc \in ExceptionClasses

\* update_metrics has returned to main: line 168 is next or has run.
UpdateReturnedToMain == pc = "L168" \/ port # 0

\* C6 (as claimed): when the classification routine raises a fault inside
\* update_metrics, the fault is not propagated: update_metrics returns
\* normally with the gauge label "error" set to -1, and main goes on to the
\* bind step instead of terminating.
C6_ReturnsAndContinues ==
    (ClassificationFault /\ pc \notin UpdateLines) =>
        /\ "error" \in DOMAIN gauge
        /\ gauge["error"] = -1
        /\ (pc \in {"L168", "L170"} \/ Len(attempts) >= 1)

\* C6 (amended): when the classification routine raises a fault inside
\* update_metrics, the fault itself is never propagated: no run reaches the
\* handler of line 183 or status 1 before a bind attempt.  Whenever
\* update_metrics returns, the gauge label "error" is -1, and in a run
\* without SIGINT it does return and main goes on to the bind step.  The
\* only other way out is the KeyboardInterrupt of a SIGINT delivered while
\* lines 160-161 run or as line 168 is about to run: then main ends through
\* lines 180-182 without a bind attempt, the label "error" unset, still 0,
\* or -1.
C6_FaultContained ==
    ClassificationFault =>
        /\ (attempts = <<>> => (pc \notin {"L184", "L185"} /\ 1 \notin exitStatus))
        /\ (UpdateReturnedToMain =>
              ("error" \in DOMAIN gauge /\ gauge["error"] = -1))
        /\ ((sigints = 0 /\ pc \notin UpdateLines) =>
              /\ UpdateReturnedToMain
              /\ (pc \in {"L168", "L170"} \/ Len(attempts) >= 1))
        /\ ((pc \notin UpdateLines /\ ~UpdateReturnedToMain) =>
              /\ sigints >= 1
              /\ pc \in {"L181", "L182", "exited"}
              /\ exitStatus \subseteq {0, 130}
              /\ attempts = <<>>
              /\ ("error" \in DOMAIN gauge => gauge["error"] \in {0, -1}))

\* C6 witness: the classification raised a fault, update_metrics has
\* returned, the gauge shows error = -1 and main stands at the first bind.
C6_Witness ==
    /\ outcome = Raise("RuntimeError")
    /\ updates = 1
    /\ sigints = 0
    /\ pc = "L170"
    /\ attempts = <<>>
    /\ DOMAIN gauge = {"error"}
    /\ gauge["error"] = -1

BothFailed == failed = {8080, 8082}

\* C7 (as claimed): in every run, at most two bind attempts, 8080 first and
\* 8082 only after 8080 failed, never a third; 8082 is not attempted when
\* 8080 binds; when both fail the serving state (the prompt, line 178) is
\* never reached and the process exits with a non-zero status.
C7_FailurePropagates ==
    /\ attempts \in {<<>>, <<8080>>, <<8080, 8082>>}
    /\ (Len(attempts) = 2 => 8080 \in failed)
    /\ (8080 \in listening => attempts = <<8080>>)
    /\ (BothFailed => (listening = {} /\ pc # "L178"))
    /\ ((BothFailed /\ pc = "exited") => 0 \notin exitStatus)
    /\ (pc = "L178" => listening # {})

\* C7 (amended): in every run, at most two bind attempts, 8080 first and
\* 8082 only after 8080 failed, never a third; 8082 is not attempted when
\* 8080 binds; when both fail the serving state is never reached, the
\* failure is in flight to the handler of line 183 and the process exits
\* with a non-zero status, unless SIGINT is delivered after the second
\* failure: a KeyboardInterrupt raised in the finally block (lines 176-177)
\* replaces the failure and main exits 0 through lines 180-182.
C7_BindAttempts ==
    /\ attempts \in {<<>>, <<8080>>, <<8080, 8082>>}
    /\ (Len(attempts) = 2 => 8080 \in failed)
    /\ (8080 \in listening => attempts = <<8080>>)
    /\ (BothFailed => (listening = {} /\ pc # "L178"))
    /\ ((BothFailed /\ sigints = 0) =>
          /\ pc \in {"L176", "L177", "L184", "L185", "exited"}
          /\ (pc \in {"L176", "L177"} => pending = "OSError")
          /\ (pc = "exited" => exitStatus = {1}))
    /\ ((BothFailed /\ pc = "exited" /\ 0 \in exitStatus) =>
          /\ sigints >= 1
          /\ log[Len(log)] = ShuttingDown
          /\ \A i \in DOMAIN log : log[i] # Fatal)
    /\ (pc = "L178" => listening # {})

\* C7 witness: both attempts were made in order, both failed, and the
\* process exited with status 1.
C7_Witness ==
    /\ attempts = <<8080, 8082>>
    /\ BothFailed
    /\ sigints = 0
    /\ pc = "exited"
    /\ exitStatus = {1}

\* C8 (as claimed): a non-zero exit status occurs only when no listener was
\* bound; once a listener is bound, every way the process ends (an
\* interrupt, the prompt returning, the prompt ending on closed standard
\* input) gives exit status 0.  (A process that SIGINT kills while a
\* handler of main runs, status 130, is left aside.)
C8_ExitStatus ==
    (pc = "exited" /\ listening # {} /\ 130 \notin exitStatus)
        => exitStatus = {0}

\* C9 (as claimed): "Prometheus metrics server started on port P" is never
\* logged for a port P whose bind attempt failed; in particular it is not
\* logged at all when both the 8080 and the 8082 attempt fail.  (Runs cut
\* short by SIGINT are left aside.)
C9_StartedOnlyWhenBound ==
    sigints = 0 =>
        \A i \in DOMAIN log :
            log[i].msg = "Prometheus metrics server started on port"
                => /\ log[i].port \notin failed
                   /\ ~BothFailed

\* C10 (as claimed): in every run of main update_metrics is invoked exactly
\* once, and it has completed, leaving the gauge non-empty, before the first
\* bind attempt.
C10_ExactlyOnce ==
    /\ updates <= 1
    /\ (pc = "exited" => updates = 1)
    /\ (Len(attempts) >= 1 =>
          (updates = 1 /\ pc \notin UpdateLines /\ DOMAIN gauge # {}))

\* C10 (amended): update_metrics is invoked at most once by main, and exactly
\* once in every run that is not ended by SIGINT before line 166 has run (such
\* a run ends with the gauge empty, no bind attempt and no listener); it has
\* completed, leaving the gauge non-empty, before the first bind attempt, so
\* no listener is bound while the gauge is empty or mid-update; from the
\* moment a listener is bound the gauge is never changed and update_metrics
\* is not run again; from the prompt main only goes on to exit.
C10_UpdateOnceBeforeBind ==
    /\ [](updates <= 1)
    /\ []((pc = "exited" /\ sigints = 0) => updates = 1)
    /\ []((pc = "exited" /\ updates = 0) =>
             /\ sigints >= 1
             /\ gauge = EmptyGauge
             /\ attempts = <<>>
             /\ listening = {})
    /\ [](Len(attempts) >= 1 =>
             (updates = 1 /\ pc \notin UpdateLines /\ DOMAIN gauge # {}))
    /\ [](listening # {} => \A l \in DOMAIN gauge : gauge[l] = OutcomeValue(outcome))
    /\ [][listening # {} => (gauge' = gauge /\ updates' = updates)]_vars
    /\ [][pc = "L178" => pc' \in {"L178", "L181", "L184", "exited"}]_vars

\* C10 witness: a listener was bound after the single update, and the
\* process has since ended with the gauge as the update left it.
C10_Witness ==
    /\ listening # {}
    /\ pc = "exited"
    /\ sigints = 0
    /\ updates = 1
    /\ DOMAIN gauge = {OutcomeLabel(outcome)}
    /\ gauge[OutcomeLabel(outcome)] = OutcomeValue(outcome)

===========================================================================
